---- MODULE Spec2Model ----
(***************************************************************************)
(* Model of the unified-diff context reducer of bookmarklet/codex.js       *)
(* (reduceDiffContext and its helpers parseHunkHeader, formatHunkHeader,   *)
(* classifyLine, trimOneHunk, expandBlock).                                *)
(*                                                                         *)
(* A JavaScript string is a sequence of one-character strings, so that     *)
(* splitting, joining, prefix tests, number formatting and the header      *)
(* regular expression are computed character by character.  Array indices  *)
(* keep the source's 0-based numbering: item idx of an array a is          *)
(* a[idx + 1] of the sequence that models it.                              *)
(***************************************************************************)
EXTENDS Integers, Sequences, FiniteSets, TLC

\* ------------------------------------------------------------------ bounds

\* Longest hunk body drawn over all five line kinds.
MaxBody == 5

\* Longest hunk body drawn over context, addition and deletion lines only.
MaxLong == 7

\* Largest contextLines argument.
MaxCtx == 2

\* Largest number given to formatHunkHeader.
MaxNum == 11

\* Most lines of a patch text.
MaxDocLines == 4

\* Most values of an object graph.
MaxNodes == 3

\* Most references between the values of an object graph.
MaxEdges == 3

\* ------------------------------------------------------------ JS strings

Max2(a, b) == IF a >= b THEN a ELSE b

\* s.slice(from, to) with 0-based from (inclusive) and to (exclusive).
Slice(s, from, to) == SubSeq(s, from + 1, to)

\* l.startsWith(p)
StartsWith(l, p) == Len(l) >= Len(p) /\ SubSeq(l, 1, Len(p)) = p

\* The character at 1-based position k of s is c (false past the end).
HasAt(s, k, c) == k >= 1 /\ k <= Len(s) /\ s[k] = c

\* The positions 1..Len(s), in order.
Positions(s) == [k \in 1..Len(s) |-> k]

\* patchText.replace(/\r\n/g, "\n"): every carriage return that a newline
\* follows is dropped.
ReplaceCRLF(s) ==
  LET Kept(k) == ~(s[k] = "\r" /\ HasAt(s, k + 1, "\n"))
      kept == SelectSeq(Positions(s), Kept)
  IN  [j \in 1..Len(kept) |-> s[kept[j]]]

\* s.split("\n"): one line before every newline and one after the last; the
\* empty string splits into one empty line.
SplitLines(s) ==
  LET IsNL(k) == s[k] = "\n"
      nls == SelectSeq(Positions(s), IsNL)
  IN  [j \in 1..(Len(nls) + 1) |->
         SubSeq(s, IF j = 1 THEN 1 ELSE nls[j - 1] + 1,
                   IF j = Len(nls) + 1 THEN Len(s) ELSE nls[j] - 1)]

\* out.reduce((acc, line) => acc + line + "\n", ""): every line with a
\* newline after it, from line k on.
RECURSIVE JoinLinesFrom(_, _)
JoinLinesFrom(ls, k) ==
  IF k > Len(ls) THEN <<>>
  ELSE ls[k] \o <<"\n">> \o JoinLinesFrom(ls, k + 1)

JoinLines(ls) == JoinLinesFrom(ls, 1)

\* --------------------------------------------------------------- numbers

DigitChars == <<"0", "1", "2", "3", "4", "5", "6", "7", "8", "9">>

\* \d
IsDigit(c) == \E d \in 1..Len(DigitChars) : DigitChars[d] = c

DigitVal(c) == (CHOOSE d \in 1..Len(DigitChars) : DigitChars[d] = c) - 1

\* The white space and line terminators of ECMAScript beyond the blank and
\* the escapes a string of this module can hold. U+000B is written as it
\* is; a character outside ASCII is one element named by its JavaScript
\* escape, so that each is a value of its own however the module is read.
VerticalTab == ""
NoBreakSpace == "\\u00a0"
OghamSpace == "\\u1680"
ByteOrderMark == "\\ufeff"
LineSeparator == "\\u2028"
ParagraphSeparator == "\\u2029"
SpaceSeparators ==
  {NoBreakSpace, OghamSpace, "\\u2000", "\\u2001", "\\u2002", "\\u2003",
   "\\u2004", "\\u2005", "\\u2006", "\\u2007", "\\u2008", "\\u2009",
   "\\u200a", "\\u202f", "\\u205f", "\\u3000"}

\* A character the regular expression's `.` does not match.
IsLineTerminator(c) == c \in {"\r", "\n", LineSeparator, ParagraphSeparator}

\* \s: the white space and the line terminators.
IsSpace(c) ==
  \/ c \in {" ", "\t", "\f", VerticalTab, ByteOrderMark}
  \/ c \in SpaceSeparators
  \/ IsLineTerminator(c)

\* "" + n, for a non-negative integer n
RECURSIVE NumToStr(_)
NumToStr(n) ==
  IF n < Len(DigitChars) THEN <<DigitChars[n + 1]>>
  ELSE NumToStr(n \div Len(DigitChars)) \o <<DigitChars[(n % Len(DigitChars)) + 1]>>

\* parseInt(ds, 10) on a non-empty run of digits
RECURSIVE ParseIntFrom(_, _, _)
ParseIntFrom(ds, k, acc) ==
  IF k > Len(ds) THEN acc
  ELSE ParseIntFrom(ds, k + 1, acc * Len(DigitChars) + DigitVal(ds[k]))

ParseInt(ds) == ParseIntFrom(ds, 1, 0)

\* ------------------------------------------------------- HunkHeaderCodec

\* The position just past the longest run of digits of s that starts at
\* position i (i itself when there is none): a greedy \d*.
RECURSIVE DigitsEnd(_, _)
DigitsEnd(s, i) ==
  IF i > Len(s) \/ ~IsDigit(s[i]) THEN i ELSE DigitsEnd(s, i + 1)

\* The same for whitespace: a greedy \s*.
RECURSIVE SpacesEnd(_, _)
SpacesEnd(s, i) ==
  IF i > Len(s) \/ ~IsSpace(s[i]) THEN i ELSE SpacesEnd(s, i + 1)

\* (\d+)(?:,(\d+))? at position i.
MatchRange(s, i) ==
  LET e1 == DigitsEnd(s, i)
      e2 == DigitsEnd(s, e1 + 1)
      withLen == HasAt(s, e1, ",") /\ e2 > e1 + 1
  IN  [ok     |-> e1 > i,
       start  |-> SubSeq(s, i, e1 - 1),
       hasLen |-> withLen,
       len    |-> IF withLen THEN SubSeq(s, e1 + 1, e2 - 1) ELSE <<>>,
       next   |-> IF withLen THEN e2 ELSE e1]

\* /^@@\s+-(\d+)(?:,(\d+))?\s+\+(\d+)(?:,(\d+))?\s+@@/ : the groups, and the
\* position `rest` just past the closing @@.
HeaderMatch(line) ==
  LET w1 == SpacesEnd(line, 3)
      r1 == MatchRange(line, w1 + 1)
      w2 == SpacesEnd(line, r1.next)
      r2 == MatchRange(line, w2 + 1)
      w3 == SpacesEnd(line, r2.next)
  IN  [ok   |-> /\ HasAt(line, 1, "@") /\ HasAt(line, 2, "@")
                /\ w1 > 3 /\ HasAt(line, w1, "-") /\ r1.ok
                /\ w2 > r1.next /\ HasAt(line, w2, "+") /\ r2.ok
                /\ w3 > r2.next /\ HasAt(line, w3, "@") /\ HasAt(line, w3 + 1, "@"),
       old  |-> r1,
       new  |-> r2,
       rest |-> w3 + 2]

isHunkHeader(line) == HeaderMatch(line).ok

isFileHeaderStart(line) ==
  StartsWith(line, <<"d", "i", "f", "f", " ", "-", "-", "g", "i", "t", " ">>)

\* The match of parseHunkHeader's expression, which ends in (.*)$ : the
\* text after the closing @@ must hold no line terminator.
HeaderParses(headerLine) ==
  LET m == HeaderMatch(headerLine)
  IN  /\ m.ok
      /\ \A k \in m.rest..Len(headerLine) : ~IsLineTerminator(headerLine[k])

\* parseHunkHeader reading an absent length as 0.
parseHunkHeaderAbsentZero(headerLine) ==
  LET m == HeaderMatch(headerLine)
  IN  [oldStart |-> ParseInt(m.old.start),
       oldLen   |-> IF m.old.hasLen THEN ParseInt(m.old.len) ELSE 0,
       newStart |-> ParseInt(m.new.start),
       newLen   |-> IF m.new.hasLen THEN ParseInt(m.new.len) ELSE 0,
       section  |-> SubSeq(headerLine, m.rest, Len(headerLine)),
       raw      |-> headerLine]

parseHunkHeader(headerLine) ==
  LET m == HeaderMatch(headerLine)
  IN  [oldStart |-> ParseInt(m.old.start),
       oldLen   |-> IF m.old.hasLen THEN ParseInt(m.old.len) ELSE 1,
       newStart |-> ParseInt(m.new.start),
       newLen   |-> IF m.new.hasLen THEN ParseInt(m.new.len) ELSE 1,
       section  |-> SubSeq(headerLine, m.rest, Len(headerLine)),
       raw      |-> headerLine]

lenIsZero(n) == n = 0

fmtRange(start, len) ==
  IF len = 1 THEN NumToStr(start)
  ELSE NumToStr(start) \o <<",">> \o NumToStr(len)

formatHunkHeader(oldStart, oldLen, newStart, newLen, section) ==
  LET oldPart == IF lenIsZero(oldLen) THEN NumToStr(oldStart) \o <<",", "0">>
                 ELSE fmtRange(oldStart, oldLen)
      newPart == IF lenIsZero(newLen) THEN NumToStr(newStart) \o <<",", "0">>
                 ELSE fmtRange(newStart, newLen)
  IN  <<"@", "@", " ", "-">> \o oldPart \o <<" ", "+">> \o newPart
        \o <<" ", "@", "@">> \o section

\* ---------------------------------------------------------- classifyLine

NoNewlineMarker ==
  <<"\\", " ", "N", "o", " ", "n", "e", "w", "l", "i", "n", "e", " ", "a", "t",
    " ", "e", "n", "d", " ", "o", "f", " ", "f", "i", "l", "e">>

classifyLine(l) ==
  IF StartsWith(l, NoNewlineMarker) THEN [type |-> "meta", text |-> l]
  ELSE IF HasAt(l, 1, " ") THEN [type |-> "ctx", text |-> l]
  ELSE IF HasAt(l, 1, "+") THEN [type |-> "add", text |-> l]
  ELSE IF HasAt(l, 1, "-") THEN [type |-> "del", text |-> l]
  ELSE [type |-> "other", text |-> l]

\* bodyLines.map(classifyLine)
classifyAll(bodyLines) == [k \in 1..Len(bodyLines) |-> classifyLine(bodyLines[k])]

\* ----------------------------------------------------------- trimOneHunk

\* oldBefore advanced by additions instead of deletions.
oldBeforeSwapped(hh, items) ==
  LET ob[k \in 0..Len(items)] ==
        IF k = 0 THEN hh.oldStart
        ELSE ob[k - 1] + (IF items[k].type \in {"ctx", "add"} THEN 1 ELSE 0)
  IN  ob

\* oldBefore: the old-side line number before each item index 0..items.length.
oldBeforeOf(hh, items) ==
  LET ob[k \in 0..Len(items)] ==
        IF k = 0 THEN hh.oldStart
        ELSE ob[k - 1] + (IF items[k].type \in {"ctx", "del"} THEN 1 ELSE 0)
  IN  ob

\* newBefore: the new-side line number before each item index.
newBeforeOf(hh, items) ==
  LET nb[k \in 0..Len(items)] ==
        IF k = 0 THEN hh.newStart
        ELSE nb[k - 1] + (IF items[k].type \in {"ctx", "add"} THEN 1 ELSE 0)
  IN  nb

isChange(items, idx) ==
  idx >= 0 /\ idx < Len(items) /\ items[idx + 1].type \in {"add", "del"}

\* changeIdxs: the indices of the addition and deletion items, ascending.
changeIdxsOf(items) ==
  LET IsCh(idx) == isChange(items, idx)
  IN  SelectSeq([k \in 1..Len(items) |-> k - 1], IsCh)

\* The budget test passing one context line too late.
budgetSpentLate(ctxCount, ctxN) == ctxCount > ctxN

\* The test that ends an expansion once a context line has been counted.
budgetSpent(ctxCount, ctxN) == ctxCount >= ctxN

\* expandBlock's first loop, at index j with s and ctxCount as they stand.
RECURSIVE expandLeft(_, _, _, _, _)
expandLeft(items, j, s, ctxCount, ctxN) ==
  IF j < 0 THEN s
  ELSE LET t == items[j + 1].type
       IN  IF t = "ctx"
           THEN IF budgetSpent(ctxCount + 1, ctxN) THEN j
                ELSE expandLeft(items, j - 1, j, ctxCount + 1, ctxN)
           ELSE IF t \in {"meta", "other"}
           THEN expandLeft(items, j - 1, j, ctxCount, ctxN)
           ELSE IF t \in {"add", "del"} THEN s
           ELSE expandLeft(items, j - 1, j, ctxCount, ctxN)

\* expandBlock's second loop, at index j with e and ctxCount as they stand.
RECURSIVE expandRight(_, _, _, _, _)
expandRight(items, j, e, ctxCount, ctxN) ==
  IF j >= Len(items) THEN e
  ELSE LET t == items[j + 1].type
       IN  IF t = "ctx"
           THEN IF budgetSpent(ctxCount + 1, ctxN) THEN j
                ELSE expandRight(items, j + 1, j, ctxCount + 1, ctxN)
           ELSE IF t \in {"meta", "other"}
           THEN expandRight(items, j + 1, j, ctxCount, ctxN)
           ELSE IF t \in {"add", "del"} THEN e
           ELSE expandRight(items, j + 1, j, ctxCount, ctxN)

\* A range is the pair <<s, e>> of its first and last item index.
expandBlock(items, startIdx, endIdx, ctxN) ==
  <<expandLeft(items, startIdx - 1, startIdx, 0, ctxN),
    expandRight(items, endIdx + 1, endIdx, 0, ctxN)>>

RECURSIVE blockRangesWithoutLast(_, _, _, _, _, _, _)
blockRangesWithoutLast(items, changeIdxs, k, blockStart, blockEnd, ctx, ranges) ==
  IF k >= Len(changeIdxs)
  THEN ranges
  ELSE LET idx == changeIdxs[k + 1]
       IN  IF idx = blockEnd + 1
           THEN blockRangesWithoutLast(items, changeIdxs, k + 1, blockStart, idx,
                                       ctx, ranges)
           ELSE blockRangesWithoutLast(items, changeIdxs, k + 1, idx, idx, ctx,
                  Append(ranges, expandBlock(items, blockStart, blockEnd, ctx)))

\* The loop over changeIdxs that closes a block at every index gap, at
\* position k with blockStart, blockEnd and ranges as they stand, and the
\* push of the last block after it.
RECURSIVE blockRangesFrom(_, _, _, _, _, _, _)
blockRangesFrom(items, changeIdxs, k, blockStart, blockEnd, ctx, ranges) ==
  IF k >= Len(changeIdxs)
  THEN Append(ranges, expandBlock(items, blockStart, blockEnd, ctx))
  ELSE LET idx == changeIdxs[k + 1]
       IN  IF idx = blockEnd + 1
           THEN blockRangesFrom(items, changeIdxs, k + 1, blockStart, idx, ctx, ranges)
           ELSE blockRangesFrom(items, changeIdxs, k + 1, idx, idx, ctx,
                  Append(ranges, expandBlock(items, blockStart, blockEnd, ctx)))

\* ranges.sort((a, b) => a[0] - b[0]), a stable sort on the start index.
RECURSIVE insertByStart(_, _)
insertByStart(sorted, r) ==
  IF sorted = <<>> THEN <<r>>
  ELSE IF r[1] < sorted[Len(sorted)][1]
       THEN Append(insertByStart(SubSeq(sorted, 1, Len(sorted) - 1), r),
                   sorted[Len(sorted)])
       ELSE Append(sorted, r)

RECURSIVE sortByStartFrom(_, _, _)
sortByStartFrom(ranges, k, sorted) ==
  IF k > Len(ranges) THEN sorted
  ELSE sortByStartFrom(ranges, k + 1, insertByStart(sorted, ranges[k]))

sortByStart(ranges) == sortByStartFrom(ranges, 1, <<>>)

\* The merge test taking overlapping ranges only, not adjacent ones.
touchesOverlapOnly(last, r) == r[1] <= last[2]

\* The merge test of two ranges: r starts no later than just past last.
touches(last, r) == r[1] <= last[2] + 1

\* One pass of the merge loop's body.
mergeStep(merged, r) ==
  IF merged = <<>> THEN <<r>>
  ELSE LET last == merged[Len(merged)]
       IN  IF touches(last, r)
           THEN [merged EXCEPT ![Len(merged)] = <<last[1], Max2(last[2], r[2])>>]
           ELSE Append(merged, r)

RECURSIVE mergeFrom(_, _, _)
mergeFrom(ranges, k, merged) ==
  IF k > Len(ranges) THEN merged
  ELSE mergeFrom(ranges, k + 1, mergeStep(merged, ranges[k]))

\* merged: the kept ranges of a body that has at least one change line.
mergedRanges(items, ctx) ==
  LET changeIdxs == changeIdxsOf(items)
      ranges == blockRangesFrom(items, changeIdxs, 1, changeIdxs[1], changeIdxs[1],
                                ctx, <<>>)
  IN  mergeFrom(sortByStart(ranges), 1, <<>>)

\* The oldLen/newLen loop over a segment's items.
RECURSIVE segLensFrom(_, _, _, _)
segLensFrom(segItems, k, oldLen, newLen) ==
  IF k > Len(segItems) THEN [oldLen |-> oldLen, newLen |-> newLen]
  ELSE LET t == segItems[k].type
       IN  IF t = "ctx" THEN segLensFrom(segItems, k + 1, oldLen + 1, newLen + 1)
           ELSE IF t = "del" THEN segLensFrom(segItems, k + 1, oldLen + 1, newLen)
           ELSE IF t = "add" THEN segLensFrom(segItems, k + 1, oldLen, newLen + 1)
           ELSE segLensFrom(segItems, k + 1, oldLen, newLen)

\* The lengths with marker and other lines counted on both sides.
segLensCountingAll(segItems) ==
  [oldLen |-> Cardinality({k \in 1..Len(segItems) : segItems[k].type # "add"}),
   newLen |-> Cardinality({k \in 1..Len(segItems) : segItems[k].type # "del"})]

segLens(segItems) == segLensFrom(segItems, 1, 0, 0)

\* segItems.some(x => x.type === "add" || x.type === "del")
someChange(segItems) == \E k \in 1..Len(segItems) : segItems[k].type \in {"add", "del"}

\* The hunk built from one merged range <<s, e>>.
segmentHunk(hh, items, r) ==
  LET segItems == Slice(items, r[1], r[2] + 1)
      lens == segLens(segItems)
  IN  [headerLine |-> formatHunkHeader(oldBeforeOf(hh, items)[r[1]], lens.oldLen,
                                       newBeforeOf(hh, items)[r[1]], lens.newLen,
                                       hh.section),
       bodyLines  |-> [k \in 1..Len(segItems) |-> segItems[k].text]]

\* The loop that turns the merged ranges into result.
RECURSIVE resultFrom(_, _, _, _, _)
resultFrom(hh, items, merged, k, result) ==
  IF k > Len(merged) THEN result
  ELSE resultFrom(hh, items, merged, k + 1,
         IF someChange(Slice(items, merged[k][1], merged[k][2] + 1))
         THEN Append(result, segmentHunk(hh, items, merged[k]))
         ELSE result)

\* trimOneHunk passing a hunk without changes through instead of dropping it.
trimOneHunkKeepsUnchanged(hh, bodyLines, ctx) ==
  LET items == classifyAll(bodyLines)
  IN  IF changeIdxsOf(items) = <<>>
      THEN <<[headerLine |-> hh.raw, bodyLines |-> bodyLines]>>
      ELSE resultFrom(hh, items, mergedRanges(items, ctx), 1, <<>>)

trimOneHunk(hh, bodyLines, ctx) ==
  LET items == classifyAll(bodyLines)
  IN  IF changeIdxsOf(items) = <<>> THEN <<>>
      ELSE resultFrom(hh, items, mergedRanges(items, ctx), 1, <<>>)

\* -------------------------------------------------------- reduceDiffContext

validContextLinesAnySign(kind, c) == kind = "finite"

\* !Number.isFinite(contextLines) || contextLines < 0 is false. kind says
\* what the argument is: a finite number, whose value is c, or a NaN, an
\* infinity or a value that is no number, none of which isFinite accepts.
validContextLines(kind, c) == kind = "finite" /\ c >= 0

RECURSIVE bodyEndOfPastFileHeader(_, _)
bodyEndOfPastFileHeader(ls, k) ==
  IF k < Len(ls) /\ ~isHunkHeader(ls[k + 1])
  THEN bodyEndOfPastFileHeader(ls, k + 1)
  ELSE k

\* The inner while loop, at index k: the index of the first line at or
\* after k that is a hunk header or a file header, or lines.length.
RECURSIVE bodyEndOf(_, _)
bodyEndOf(ls, k) ==
  IF k < Len(ls) /\ ~isHunkHeader(ls[k + 1]) /\ ~isFileHeaderStart(ls[k + 1])
  THEN bodyEndOf(ls, k + 1)
  ELSE k

\* The for loop that pushes every trimmed hunk's header and body onto out.
RECURSIVE pushHunksFrom(_, _, _)
pushHunksFrom(o, ths, k) ==
  IF k > Len(ths) THEN o
  ELSE pushHunksFrom(Append(o, ths[k].headerLine) \o ths[k].bodyLines, ths, k + 1)

pushHunks(o, ths) == pushHunksFrom(o, ths, 1)

\* ------------------------------------------------------------ input pools

CtxLine == <<" ", "a">>
AddLine == <<"+", "b">>
DelLine == <<"-", "c">>
MetaLine == NoNewlineMarker
EmptyLine == <<>>
\* An addition line of a CRLF-terminated text.
AddCrLine == <<"+", "b", "\r">>
FileHeaderLine ==
  <<"d", "i", "f", "f", " ", "-", "-", "g", "i", "t", " ", "a", "/", "f", " ", "b", "/", "f">>
HunkHeaderLine ==
  <<"@", "@", " ", "-", "3", ",", "1", " ", "+", "4", ",", "2", " ", "@", "@", " ", "f">>
\* The same header with other white space between its parts.
WideSpaceHeaderLine ==
  <<"@", "@", VerticalTab, "-", "3", ",", "1", NoBreakSpace, LineSeparator, "+",
    "4", ",", "2", "\\u3000", "@", "@", " ", "f">>
\* The header of the specification's worked example.
ExampleHeaderLine ==
  <<"@", "@", " ", "-", "1", "0", ",", "7", " ", "+", "1", "0", ",", "8", " ", "@", "@">>
\* A line that passes isHunkHeader and that parseHunkHeader rejects: a bare
\* carriage return after the closing @@.
BadHeaderLine ==
  <<"@", "@", " ", "-", "1", " ", "+", "1", " ", "@", "@", "\r", "x">>

\* The body of the specification's worked example.
ExampleBody ==
  <<CtxLine, CtxLine, DelLine, AddLine, AddLine, CtxLine, CtxLine, CtxLine, CtxLine>>

SeqsUpTo(S, n) == UNION {[1..m -> S] : m \in 0..n}

BodyKinds == {CtxLine, AddLine, DelLine, MetaLine, EmptyLine}
LongKinds == {CtxLine, AddLine, DelLine}
Bodies == SeqsUpTo(BodyKinds, MaxBody) \cup SeqsUpTo(LongKinds, MaxLong) \cup {ExampleBody}
TrimHeaders == {ExampleHeaderLine, HunkHeaderLine, WideSpaceHeaderLine}

DocKinds ==
  {FileHeaderLine, HunkHeaderLine, BadHeaderLine, CtxLine, AddCrLine, MetaLine,
   EmptyLine}

\* ls.join("\n")
JoinWithNL(ls) == LET t == JoinLines(ls) IN SubSeq(t, 1, Len(t) - 1)

Texts == {JoinWithNL(ls) : ls \in SeqsUpTo(DocKinds, MaxDocLines) \ {<<>>}}

CtxInputs == (0 - 1)..MaxCtx

\* The second arguments that are no finite number.
NonFiniteKinds == {"NaN", "Infinity", "-Infinity", "string"}

Sections ==
  {<<>>, <<" ", "f">>, <<"@", "@", "1", ",", "2">>, <<"\r">>, <<" ", ParagraphSeparator>>}

\* ------------------------------------------------------------------ state

VARIABLES
  patchText,      \* reduceDiffContext's first argument
  contextLines,   \* its second argument (ctx of trimOneHunk)
  lines,          \* the split text
  i,              \* the scan index into lines
  out,            \* the output lines so far
  hunkHeader,     \* the header parsed last (hh of trimOneHunk)
  hunkBodyLines,  \* the body collected last (bodyLines of trimOneHunk)
  trimmedHunks,   \* what trimOneHunk returned last
  result,         \* the returned text
  pc,             \* where the call stands
  pass,           \* 1 in the first call, 2 when the caller reduces its output
  prevResult,     \* the first call's result, during the second call
  fmtArgs,        \* the arguments of a formatHunkHeader call
  headerLine,     \* what formatHunkHeader returned
  contextKind,    \* what kind of JavaScript value the second argument is
  nodeKind,       \* findFirstParentWhere: the kind of value each node is
  children,       \* the values of each node's own properties, in order
  matching,       \* the objects the matcher answers true for
  stack,          \* the dfs calls in progress, innermost last
  visited,        \* the WeakSet of objects seen
  matcherCalls,   \* the objects the matcher was called with, in order
  hit,            \* what findFirstParentWhere returned
  storage,        \* localStorage's entry under THEME_STORAGE_KEY: <<>> or <<value>>
  bodyTheme,      \* document.body's data-theme attribute: <<>> or <<value>>
  hasButton,      \* whether #theme_toggle exists
  buttonLabel     \* the toggle button's textContent

findVars == <<nodeKind, children, matching, stack, visited, matcherCalls, hit>>

themeVars == <<storage, bodyTheme, hasButton, buttonLabel>>

vars == <<patchText, contextLines, lines, i, out, hunkHeader, hunkBodyLines,
          trimmedHunks, result, pc, pass, prevResult, fmtArgs, headerLine,
          contextKind, findVars, themeVars>>

NoHeader ==
  [oldStart |-> 0, oldLen |-> 0, newStart |-> 0, newLen |-> 0,
   section |-> <<>>, raw |-> <<>>]

NoArgs ==
  [oldStart |-> 0, oldLen |-> 0, newStart |-> 0, newLen |-> 0, section |-> <<>>]

NoHit == [found |-> FALSE, parent |-> 0, path |-> <<>>]

\* findFirstParentWhere is not running.
FindIdle ==
  /\ nodeKind = <<>> /\ children = <<>> /\ matching = {}
  /\ stack = <<>> /\ visited = {} /\ matcherCalls = <<>> /\ hit = NoHit

\* No page is loaded.
ThemeIdle ==
  /\ storage = <<>> /\ bodyTheme = <<>>
  /\ hasButton = FALSE /\ buttonLabel = ""

\* The values of everything a call has not assigned yet.
Blank ==
  /\ lines = <<>> /\ i = 0 /\ out = <<>>
  /\ hunkHeader = NoHeader /\ hunkBodyLines = <<>> /\ trimmedHunks = <<>>
  /\ result = <<>> /\ prevResult = <<>> /\ pass = 1
  /\ fmtArgs = NoArgs /\ headerLine = <<>>

\* ------------------------------------------------- reduceDiffContext, stepwise

Init ==
  /\ patchText \in Texts
  /\ \/ contextKind = "finite" /\ contextLines \in CtxInputs
     \/ contextKind \in NonFiniteKinds /\ contextLines = 0
  /\ pc = "start"
  /\ Blank
  /\ FindIdle /\ ThemeIdle

\* The argument check fails: the call throws before it reads the text.
RejectContextLines ==
  /\ pc = "start"
  /\ ~validContextLines(contextKind, contextLines)
  /\ pc' = "threw"
  /\ UNCHANGED <<contextKind, findVars, themeVars>>
  /\ UNCHANGED <<patchText, contextLines, lines, i, out, hunkHeader, hunkBodyLines,
                 trimmedHunks, result, pass, prevResult, fmtArgs, headerLine>>

\* The argument check passes: the text is normalised and split.
Enter ==
  /\ pc = "start"
  /\ validContextLines(contextKind, contextLines)
  /\ lines' = SplitLines(ReplaceCRLF(patchText))
  /\ out' = <<>>
  /\ i' = 0
  /\ pc' = "scan"
  /\ UNCHANGED <<contextKind, findVars, themeVars>>
  /\ UNCHANGED <<patchText, contextLines, hunkHeader, hunkBodyLines, trimmedHunks,
                 result, pass, prevResult, fmtArgs, headerLine>>

\* One pass of the outer loop on a line that is no hunk header.
CopyLine ==
  /\ pc = "scan"
  /\ i < Len(lines)
  /\ ~isHunkHeader(lines[i + 1])
  /\ out' = Append(out, lines[i + 1])
  /\ i' = i + 1
  /\ UNCHANGED <<contextKind, findVars, themeVars>>
  /\ UNCHANGED <<patchText, contextLines, lines, hunkHeader, hunkBodyLines,
                 trimmedHunks, result, pc, pass, prevResult, fmtArgs, headerLine>>

\* One pass of the outer loop on a hunk header: parse it, collect the body,
\* trim the hunk and push what is left of it.
TrimHunk ==
  /\ pc = "scan"
  /\ i < Len(lines)
  /\ isHunkHeader(lines[i + 1])
  /\ HeaderParses(lines[i + 1])
  /\ hunkHeader' = parseHunkHeader(lines[i + 1])
  /\ i' = bodyEndOf(lines, i + 1)
  /\ hunkBodyLines' = Slice(lines, i + 1, i')
  /\ trimmedHunks' = trimOneHunk(hunkHeader', hunkBodyLines', contextLines)
  /\ out' = pushHunks(out, trimmedHunks')
  /\ UNCHANGED <<contextKind, findVars, themeVars>>
  /\ UNCHANGED <<patchText, contextLines, lines, result, pc, pass, prevResult,
                 fmtArgs, headerLine>>

\* parseHunkHeader throws "Invalid hunk header" on a line isHunkHeader took.
HunkHeaderThrows ==
  /\ pc = "scan"
  /\ i < Len(lines)
  /\ isHunkHeader(lines[i + 1])
  /\ ~HeaderParses(lines[i + 1])
  /\ pc' = "threw"
  /\ UNCHANGED <<contextKind, findVars, themeVars>>
  /\ UNCHANGED <<patchText, contextLines, lines, i, out, hunkHeader, hunkBodyLines,
                 trimmedHunks, result, pass, prevResult, fmtArgs, headerLine>>

\* The outer loop is over: every output line is joined with a newline after it.
Return ==
  /\ pc = "scan"
  /\ i >= Len(lines)
  /\ result' = JoinLines(out)
  /\ pc' = "done"
  /\ UNCHANGED <<contextKind, findVars, themeVars>>
  /\ UNCHANGED <<patchText, contextLines, lines, i, out, hunkHeader, hunkBodyLines,
                 trimmedHunks, pass, prevResult, fmtArgs, headerLine>>

\* The caller reduces the returned text again with the same contextLines.
ReduceAgain ==
  /\ pc = "done"
  /\ pass = 1
  /\ patchText' = result
  /\ prevResult' = result
  /\ pass' = 2
  /\ pc' = "start"
  /\ lines' = <<>> /\ i' = 0 /\ out' = <<>> /\ result' = <<>>
  /\ hunkHeader' = NoHeader /\ hunkBodyLines' = <<>> /\ trimmedHunks' = <<>>
  /\ UNCHANGED <<contextKind, findVars, themeVars>>
  /\ UNCHANGED <<contextLines, fmtArgs, headerLine>>

Next ==
  \/ RejectContextLines
  \/ Enter
  \/ CopyLine
  \/ TrimHunk
  \/ HunkHeaderThrows
  \/ Return
  \/ ReduceAgain

Spec == Init /\ [][Next]_vars

\* ------------------------------------------------- trimOneHunk on its own

InitTrim ==
  /\ hunkHeader \in {parseHunkHeader(h) : h \in TrimHeaders}
  /\ hunkBodyLines \in Bodies
  /\ contextLines \in 0..MaxCtx
  /\ contextKind = "finite"
  /\ FindIdle /\ ThemeIdle
  /\ pc = "trim"
  /\ patchText = <<>>
  /\ lines = <<>> /\ i = 0 /\ out = <<>> /\ trimmedHunks = <<>>
  /\ result = <<>> /\ prevResult = <<>> /\ pass = 1
  /\ fmtArgs = NoArgs /\ headerLine = <<>>

TrimOne ==
  /\ pc = "trim"
  /\ trimmedHunks' = trimOneHunk(hunkHeader, hunkBodyLines, contextLines)
  /\ pc' = "trimmed"
  /\ UNCHANGED <<contextKind, findVars, themeVars>>
  /\ UNCHANGED <<patchText, contextLines, lines, i, out, hunkHeader, hunkBodyLines,
                 result, pass, prevResult, fmtArgs, headerLine>>

NextTrim == TrimOne

SpecTrim == InitTrim /\ [][NextTrim]_vars

\* ----------------------------------------- formatHunkHeader, parseHunkHeader

InitCodec ==
  /\ fmtArgs \in [oldStart : 0..MaxNum, oldLen : 0..MaxNum,
                  newStart : 0..MaxNum, newLen : 0..MaxNum, section : Sections]
  /\ pc = "format"
  /\ headerLine = <<>>
  /\ patchText = <<>> /\ contextLines = 0
  /\ contextKind = "finite"
  /\ FindIdle /\ ThemeIdle
  /\ lines = <<>> /\ i = 0 /\ out = <<>>
  /\ hunkHeader = NoHeader /\ hunkBodyLines = <<>> /\ trimmedHunks = <<>>
  /\ result = <<>> /\ prevResult = <<>> /\ pass = 1

Format ==
  /\ pc = "format"
  /\ headerLine' = formatHunkHeader(fmtArgs.oldStart, fmtArgs.oldLen,
                                    fmtArgs.newStart, fmtArgs.newLen, fmtArgs.section)
  /\ pc' = "parse"
  /\ UNCHANGED <<contextKind, findVars, themeVars>>
  /\ UNCHANGED <<patchText, contextLines, lines, i, out, hunkHeader, hunkBodyLines,
                 trimmedHunks, result, pass, prevResult, fmtArgs>>

Parse ==
  /\ pc = "parse"
  /\ HeaderParses(headerLine)
  /\ hunkHeader' = parseHunkHeader(headerLine)
  /\ pc' = "parsed"
  /\ UNCHANGED <<contextKind, findVars, themeVars>>
  /\ UNCHANGED <<patchText, contextLines, lines, i, out, hunkBodyLines,
                 trimmedHunks, result, pass, prevResult, fmtArgs, headerLine>>

ParseThrows ==
  /\ pc = "parse"
  /\ ~HeaderParses(headerLine)
  /\ pc' = "threw"
  /\ UNCHANGED <<contextKind, findVars, themeVars>>
  /\ UNCHANGED <<patchText, contextLines, lines, i, out, hunkHeader, hunkBodyLines,
                 trimmedHunks, result, pass, prevResult, fmtArgs, headerLine>>

NextCodec ==
  \/ Format
  \/ Parse
  \/ ParseThrows

SpecCodec == InitCodec /\ [][NextCodec]_vars

\* ================================================= findFirstParentWhere

\* The values of a graph are numbered from 1; value 1 is obj, the root.
Nodes == 1..MaxNodes

\* What a value is: a plain object, an array, a function, a primitive value
\* (a number, a string, undefined) or null.
Kinds == {"object", "array", "function", "primitive", "null"}

isObjectOrFunction(kind) == kind \in {"object", "array", "function"}

\* node !== null and typeof node === "object": dfs goes on with it.
isObject(kind) == kind \in {"object", "array"}

\* The kinds of the values of a graph: all plain objects but at most one.
KindMaps ==
  {km \in [Nodes -> Kinds] : Cardinality({n \in Nodes : km[n] # "object"}) <= 1}

\* The values that the references es lead to from the values of R, in at
\* most k steps.
RECURSIVE ReachedIn(_, _, _)
ReachedIn(es, R, k) ==
  IF k = 0 THEN R
  ELSE ReachedIn(es, R \cup {es[j][2] : j \in {m \in 1..Len(es) : es[m][1] \in R}},
                 k - 1)

\* The references of a graph as a list: whose property, in the owner's
\* iteration order, and the value it holds. Every owner is a value that
\* references lead to from the root.
EdgeLists ==
  {es \in SeqsUpTo(Nodes \X Nodes, MaxEdges) :
     /\ \A k \in 1..(Len(es) - 1) : es[k][1] <= es[k + 1][1]
     /\ \A k \in 1..Len(es) : es[k][1] \in ReachedIn(es, {1}, Len(es))}

\* The values of the own properties of node n, or its elements.
ChildrenIn(es, n) ==
  LET own == SelectSeq(es, LAMBDA e : e[1] = n)
  IN  [k \in 1..Len(own) |-> own[k][2]]

Graphs == {[n \in Nodes |-> ChildrenIn(es, n)] : es \in EdgeLists}

\* path.concat(i) appends an index and path.concat(k) a key; the key of an
\* object's property is named by its place n in Object.entries' order.
PathStep(kind, n) ==
  IF kind = "array" THEN [kind |-> "index", n |-> n]
  ELSE [kind |-> "key", n |-> n]

\* A call dfs(node, path) that has not run yet.
Call(node, path) == [node |-> node, path |-> path, next |-> 0 - 1]

Top == stack[Len(stack)]

Pop == SubSeq(stack, 1, Len(stack) - 1)

InitFind ==
  /\ nodeKind \in KindMaps
  /\ children \in Graphs
  /\ \A n \in Nodes : nodeKind[n] \in {"primitive", "null"} => children[n] = <<>>
  /\ matching \in SUBSET Nodes
  /\ stack = <<Call(1, <<>>)>>
  /\ visited = {}
  /\ matcherCalls = <<>>
  /\ hit = NoHit
  /\ pc = "dfs"
  /\ patchText = <<>> /\ contextLines = 0 /\ contextKind = "finite"
  /\ hunkHeader = NoHeader /\ hunkBodyLines = <<>>
  /\ lines = <<>> /\ i = 0 /\ out = <<>> /\ trimmedHunks = <<>>
  /\ result = <<>> /\ prevResult = <<>> /\ pass = 1
  /\ fmtArgs = NoArgs /\ headerLine = <<>>
  /\ ThemeIdle

\* Everything but the search's own state.
notFind ==
  <<patchText, contextLines, lines, i, out, hunkHeader, hunkBodyLines,
    trimmedHunks, result, pass, prevResult, fmtArgs, headerLine, contextKind,
    themeVars>>

\* dfs is called with null, a primitive or a function: it returns null.
ReturnLeaf ==
  /\ pc = "dfs" /\ stack # <<>>
  /\ Top.next < 0
  /\ ~isObject(nodeKind[Top.node])
  /\ stack' = Pop
  /\ UNCHANGED <<nodeKind, children, matching, visited, matcherCalls, hit, pc, notFind>>

\* dfs is called with an object it has seen: it returns null.
ReturnVisited ==
  /\ pc = "dfs" /\ stack # <<>>
  /\ Top.next < 0
  /\ isObject(nodeKind[Top.node])
  /\ Top.node \in visited
  /\ stack' = Pop
  /\ UNCHANGED <<nodeKind, children, matching, visited, matcherCalls, hit, pc, notFind>>

\* dfs is called with a new object and the matcher accepts it: the call
\* returns the hit, and so does every call around it.
MatcherHit ==
  /\ pc = "dfs" /\ stack # <<>>
  /\ Top.next < 0
  /\ isObject(nodeKind[Top.node])
  /\ Top.node \notin visited
  /\ Top.node \in matching
  /\ visited' = visited \cup {Top.node}
  /\ matcherCalls' = Append(matcherCalls, Top.node)
  /\ hit' = [found |-> TRUE, parent |-> Top.node, path |-> Top.path]
  /\ stack' = <<>>
  /\ pc' = "returned"
  /\ UNCHANGED <<nodeKind, children, matching, notFind>>

\* dfs is called with a new object and the matcher rejects it: the call
\* starts the loop over the object's elements or entries.
MatcherMiss ==
  /\ pc = "dfs" /\ stack # <<>>
  /\ Top.next < 0
  /\ isObject(nodeKind[Top.node])
  /\ Top.node \notin visited
  /\ Top.node \notin matching
  /\ visited' = visited \cup {Top.node}
  /\ matcherCalls' = Append(matcherCalls, Top.node)
  /\ stack' = [stack EXCEPT ![Len(stack)].next = 0]
  /\ UNCHANGED <<nodeKind, children, matching, hit, pc, notFind>>

\* One turn of the loop: dfs is called with the next element or entry.
Descend ==
  /\ pc = "dfs" /\ stack # <<>>
  /\ Top.next >= 0
  /\ Top.next < Len(children[Top.node])
  /\ stack' = Append([stack EXCEPT ![Len(stack)].next = Top.next + 1],
                     Call(children[Top.node][Top.next + 1],
                          Append(Top.path,
                                 PathStep(nodeKind[Top.node], Top.next))))
  /\ UNCHANGED <<nodeKind, children, matching, visited, matcherCalls, hit, pc, notFind>>

\* The loop is over with no hit: the call returns null.
Exhausted ==
  /\ pc = "dfs" /\ stack # <<>>
  /\ Top.next >= Len(children[Top.node])
  /\ stack' = Pop
  /\ UNCHANGED <<nodeKind, children, matching, visited, matcherCalls, hit, pc, notFind>>

\* dfs(obj, []) has returned null, and findFirstParentWhere returns it.
ReturnNull ==
  /\ pc = "dfs" /\ stack = <<>>
  /\ hit' = NoHit
  /\ pc' = "returned"
  /\ UNCHANGED <<nodeKind, children, matching, stack, visited, matcherCalls, notFind>>

NextFind ==
  \/ ReturnLeaf
  \/ ReturnVisited
  \/ MatcherHit
  \/ MatcherMiss
  \/ Descend
  \/ Exhausted
  \/ ReturnNull

SpecFind == InitFind /\ [][NextFind]_vars

\* ========================================================= theme-toggle.js

\* getSavedThemePreference(), reading the entry saved.
getSavedThemePreference(saved) ==
  IF saved = <<"light">> \/ saved = <<"dark">> THEN saved[1] ELSE "auto"

storedAfterSetKeepingAuto(themePreference) == <<themePreference>>

\* What setThemePreference leaves in localStorage: removeItem for 'auto',
\* setItem otherwise.
storedAfterSet(themePreference) ==
  IF themePreference = "auto" THEN <<>> ELSE <<themePreference>>

\* applyThemePreference: the body's attribute after setAttribute or
\* removeAttribute.
applyThemePreference(themePreference) ==
  IF themePreference = "light" \/ themePreference = "dark"
  THEN <<themePreference>>
  ELSE <<>>

\* The names under which displayMap inherits a built-in function of
\* Object.prototype that is named as the property is.
InheritedFunctionNames ==
  {"__defineGetter__", "__defineSetter__", "__lookupGetter__", "__lookupSetter__",
   "hasOwnProperty", "isPrototypeOf", "propertyIsEnumerable", "toLocaleString",
   "toString", "valueOf"}

\* displayMap[themePreference] as the template literal writes it: one of the
\* three own entries, what the object literal inherits from Object.prototype
\* (a built-in function reads as V8 prints it), or undefined.
displayOf(themePreference) ==
  IF themePreference = "auto" THEN "Auto"
  ELSE IF themePreference = "light" THEN "Light"
  ELSE IF themePreference = "dark" THEN "Dark"
  ELSE IF themePreference = "constructor"
  THEN "function Object() { [native code] }"
  ELSE IF themePreference \in InheritedFunctionNames
  THEN "function " \o themePreference \o "() { [native code] }"
  ELSE IF themePreference = "__proto__" THEN "[object Object]"
  ELSE "undefined"

\* `Theme: ${displayMap[themePreference]}`
labelOf(themePreference) == "Theme: " \o displayOf(themePreference)

\* updateThemeToggleLabel: the button's text afterwards.
updateThemeToggleLabel(themePreference, button, label) ==
  IF ~button THEN label ELSE labelOf(themePreference)

\* The click handler's choice of the next preference.
nextThemePreference(currentThemePreference) ==
  IF currentThemePreference = "auto" THEN "light"
  ELSE IF currentThemePreference = "light" THEN "dark"
  ELSE "auto"

\* What localStorage may hold under the key when the page loads.
SavedValues == {<<>>} \cup {<<v>> : v \in {"light", "dark", "auto", "", "Light", "blue"}}

\* What the body's attribute may be when the page loads.
BodyThemes == {<<>>} \cup {<<v>> : v \in {"light", "dark", "auto", "", "blue"}}

\* What the button may read when the page loads.
ButtonLabels == {"", "Theme"}

InitTheme ==
  /\ storage \in SavedValues
  /\ bodyTheme \in BodyThemes
  /\ hasButton \in BOOLEAN
  /\ buttonLabel \in (IF hasButton THEN ButtonLabels ELSE {""})
  /\ pc = "load"
  /\ patchText = <<>> /\ contextLines = 0 /\ contextKind = "finite"
  /\ hunkHeader = NoHeader /\ hunkBodyLines = <<>>
  /\ lines = <<>> /\ i = 0 /\ out = <<>> /\ trimmedHunks = <<>>
  /\ result = <<>> /\ prevResult = <<>> /\ pass = 1
  /\ fmtArgs = NoArgs /\ headerLine = <<>>
  /\ FindIdle

\* Everything but the theme's own state.
notTheme ==
  <<patchText, contextLines, lines, i, out, hunkHeader, hunkBodyLines,
    trimmedHunks, result, pass, prevResult, fmtArgs, headerLine, contextKind,
    findVars>>

\* setThemePreference(themePreference)
setThemePreference(themePreference) ==
  /\ storage' = storedAfterSet(themePreference)
  /\ bodyTheme' = applyThemePreference(themePreference)
  /\ buttonLabel' = updateThemeToggleLabel(themePreference, hasButton, buttonLabel)

\* The script runs: setThemePreference(getSavedThemePreference()), and the
\* click listener is added when the button exists.
PageInit ==
  /\ pc = "load"
  /\ setThemePreference(getSavedThemePreference(storage))
  /\ pc' = "ready"
  /\ UNCHANGED <<hasButton, notTheme>>

\* A click on the toggle button.
Click ==
  /\ pc = "ready"
  /\ hasButton
  /\ setThemePreference(nextThemePreference(getSavedThemePreference(storage)))
  /\ UNCHANGED <<hasButton, pc, notTheme>>

NextTheme ==
  \/ PageInit
  \/ Click

SpecTheme == InitTheme /\ [][NextTheme]_vars

\* ================================================================ claims

\* The kind classifyLine gives a line.
KindOf(l) == classifyLine(l).type

\* How many lines of ls have a kind in T.
CountKinds(ls, T) == Cardinality({k \in 1..Len(ls) : KindOf(ls[k]) \in T})

\* The 0-based indices of the change lines of ls.
ChangeAt(ls) == {k \in 0..(Len(ls) - 1) : KindOf(ls[k + 1]) \in {"add", "del"}}

SetMin(S) == CHOOSE m \in S : \A y \in S : m <= y
SetMax(S) == CHOOSE m \in S : \A y \in S : m >= y
Least(a, b) == IF a <= b THEN a ELSE b

\* trimOneHunk has returned for a body that has a change line.
Trimmed == pc = "trimmed" /\ ChangeAt(hunkBodyLines) # {}

\* The kept ranges of the body trimmed last.
KeptRanges == mergedRanges(classifyAll(hunkBodyLines), contextLines)

\* Emitted hunk k is the slice of the body that kept range k names.
EmittedSlice(k) ==
  /\ k <= Len(trimmedHunks)
  /\ trimmedHunks[k].bodyLines =
       Slice(hunkBodyLines, KeptRanges[k][1], KeptRanges[k][2] + 1)

\* Body index idx is emitted in hunk k.
EmittedIn(idx, k) ==
  EmittedSlice(k) /\ KeptRanges[k][1] <= idx /\ idx <= KeptRanges[k][2]

\* C1: in every emitted hunk the header's oldLen is the number of context and
\* deletion lines of the emitted body and its newLen the number of context and
\* addition lines; marker and other lines count toward neither.
C1_HeaderLensCountBody ==
  pc = "trimmed" =>
    \A k \in 1..Len(trimmedHunks) :
      LET th == trimmedHunks[k]
      IN  /\ HeaderParses(th.headerLine)
          /\ parseHunkHeader(th.headerLine).oldLen
               = CountKinds(th.bodyLines, {"ctx", "del"})
          /\ parseHunkHeader(th.headerLine).newLen
               = CountKinds(th.bodyLines, {"ctx", "add"})

\* An emitted hunk that holds a marker line, an other line, a context line, a
\* deletion and an addition.
C1_Witness ==
  /\ pc = "trimmed"
  /\ \E k \in 1..Len(trimmedHunks) :
       \A t \in {"meta", "other", "ctx", "del", "add"} :
         CountKinds(trimmedHunks[k].bodyLines, {t}) >= 1

\* C2: the hunk emitted from the slice that starts at body index s has
\* oldStart = the original oldStart plus the context and deletion lines at
\* indices 0..s-1, and newStart = the original newStart plus the context and
\* addition lines at indices 0..s-1.
C2_StartsCountPrecedingLines ==
  Trimmed =>
    /\ Len(trimmedHunks) = Len(KeptRanges)
    /\ \A k \in 1..Len(KeptRanges) :
         LET start == KeptRanges[k][1]
             before == Slice(hunkBodyLines, 0, start)
             h == parseHunkHeader(trimmedHunks[k].headerLine)
         IN  /\ EmittedSlice(k)
             /\ h.oldStart = hunkHeader.oldStart + CountKinds(before, {"ctx", "del"})
             /\ h.newStart = hunkHeader.newStart + CountKinds(before, {"ctx", "add"})

\* A second emitted hunk whose slice starts after dropped context and after
\* both a deletion and an addition, so that the two starts differ.
C2_Witness ==
  /\ Trimmed
  /\ Len(trimmedHunks) >= 2
  /\ LET before == Slice(hunkBodyLines, 0, KeptRanges[2][1])
     IN  /\ CountKinds(before, {"del"}) # CountKinds(before, {"add"})
         /\ CountKinds(before, {"ctx"}) >= 1
         /\ CountKinds(before, {"add"}) >= 1
         /\ CountKinds(before, {"del"}) >= 1

\* C3: for every contextLines = N >= 0 and every emitted hunk, at most N
\* context lines precede the hunk's first change line and at most N follow
\* its last change line.
C3_ContextBudgetRespected ==
  pc = "trimmed" =>
    \A k \in 1..Len(trimmedHunks) :
      LET b == trimmedHunks[k].bodyLines
          first == SetMin(ChangeAt(b))
          last == SetMax(ChangeAt(b))
      IN  /\ CountKinds(Slice(b, 0, first), {"ctx"}) <= contextLines
          /\ CountKinds(Slice(b, last + 1, Len(b)), {"ctx"}) <= contextLines

\* The pairs <<p, q>> of change lines with context lines, at least one and
\* nothing else, between them.
ContextGaps ==
  {pq \in ChangeAt(hunkBodyLines) \X ChangeAt(hunkBodyLines) :
     /\ pq[1] + 1 < pq[2]
     /\ \A m \in (pq[1] + 1)..(pq[2] - 1) : KindOf(hunkBodyLines[m + 1]) = "ctx"}

GapLen(pq) == pq[2] - pq[1] - 1

\* Both change lines of the pair are emitted in one hunk.
SameHunk(pq) == \E k \in 1..Len(KeptRanges) : EmittedIn(pq[1], k) /\ EmittedIn(pq[2], k)

\* The two change lines of the pair are emitted in two different hunks.
SeparateHunks(pq) ==
  \E k1, k2 \in 1..Len(KeptRanges) :
    k1 # k2 /\ EmittedIn(pq[1], k1) /\ EmittedIn(pq[2], k2)

\* C4 as claimed, for contextLines >= 1 (where each side keeps exactly
\* contextLines context lines): change blocks separated by exactly
\* 2*contextLines+1 context lines are emitted as one hunk, and separated by
\* exactly 2*contextLines+2 context lines as two hunks.
C4_Original ==
  (Trimmed /\ contextLines >= 1) =>
    \A pq \in ContextGaps :
      /\ GapLen(pq) = 2 * contextLines + 1 => SameHunk(pq)
      /\ GapLen(pq) = 2 * contextLines + 2 => SeparateHunks(pq)

\* The context kept on each side of a block: contextLines, and one line
\* when contextLines is 0.
KeptPerSide == IF contextLines = 0 THEN 1 ELSE contextLines

\* C4 amended: with M = contextLines (M = 1 when contextLines is 0), change
\* blocks separated by exactly 2*M context lines are emitted as one merged
\* hunk, and separated by exactly 2*M+1 context lines as two separate hunks.
C4_MergeThreshold ==
  Trimmed =>
    \A pq \in ContextGaps :
      /\ GapLen(pq) = 2 * KeptPerSide => SameHunk(pq)
      /\ GapLen(pq) = 2 * KeptPerSide + 1 => SeparateHunks(pq)

\* Two blocks exactly 2*contextLines lines apart, merged, with contextLines
\* at least 2.
C4_Witness ==
  /\ Trimmed
  /\ contextLines >= 2
  /\ \E pq \in ContextGaps : GapLen(pq) = 2 * contextLines /\ SameHunk(pq)

\* C7: whenever the body line just before a no-newline marker is emitted in
\* an output hunk, the marker is emitted right after it in the same hunk.
C7_MarkerStaysAttached ==
  Trimmed =>
    \A idx \in 1..(Len(hunkBodyLines) - 1) :
      KindOf(hunkBodyLines[idx + 1]) = "meta" =>
        \A k \in 1..Len(KeptRanges) : EmittedIn(idx - 1, k) => EmittedIn(idx, k)

\* The body is a context lines, one run of change lines, b context lines.
SingleBlock(ls) ==
  /\ \A k \in 1..Len(ls) : KindOf(ls[k]) \in {"ctx", "add", "del"}
  /\ ChangeAt(ls) # {}
  /\ \A m \in SetMin(ChangeAt(ls))..SetMax(ChangeAt(ls)) : m \in ChangeAt(ls)

ExampleTrimmedHeader ==
  <<"@", "@", " ", "-", "1", "1", ",", "3", " ", "+", "1", "1", ",", "4", " ", "@", "@">>

\* C9: for a body of a context lines, one run of change lines and b context
\* lines, and contextLines = N >= 1, exactly one hunk is emitted: the last
\* min(a, N) leading context lines, the change lines and the first min(b, N)
\* trailing context lines, under the header that counts them; the worked
\* example trims to @@ -11,3 +11,4 @@.
C9_SingleBlockExact ==
  (pc = "trimmed" /\ SingleBlock(hunkBodyLines) /\ contextLines >= 1) =>
    LET a == SetMin(ChangeAt(hunkBodyLines))
        z == SetMax(ChangeAt(hunkBodyLines))
        b == Len(hunkBodyLines) - 1 - z
        lead == Least(a, contextLines)
        trail == Least(b, contextLines)
        changes == Slice(hunkBodyLines, a, z + 1)
        h == parseHunkHeader(trimmedHunks[1].headerLine)
    IN  /\ Len(trimmedHunks) = 1
        /\ trimmedHunks[1].bodyLines = Slice(hunkBodyLines, a - lead, z + 1 + trail)
        /\ h.oldStart = hunkHeader.oldStart + (a - lead)
        /\ h.newStart = hunkHeader.newStart + (a - lead)
        /\ h.oldLen = lead + CountKinds(changes, {"del"}) + trail
        /\ h.newLen = lead + CountKinds(changes, {"add"}) + trail
        /\ h.section = hunkHeader.section
        /\ (/\ hunkHeader.raw = ExampleHeaderLine
            /\ hunkBodyLines = ExampleBody
            /\ contextLines = 1) => trimmedHunks[1].headerLine = ExampleTrimmedHeader

\* The worked example, trimmed.
C9_Witness ==
  /\ pc = "trimmed"
  /\ hunkHeader.raw = ExampleHeaderLine
  /\ hunkBodyLines = ExampleBody
  /\ contextLines = 1
  /\ Len(trimmedHunks) = 1

\* C5: reducing the output again with the same contextLines returns the same
\* text.
C5_Idempotent == (pc = "done" /\ pass = 2) => result = prevResult

\* C6: the empty string reduces to no output line and to the empty string.
C6_EmptyStaysEmpty ==
  (pc = "done" /\ pass = 1 /\ patchText = <<>>) => (out = <<>> /\ result = <<>>)

\* The scan stands on a hunk header that parses.
AtHunk == pc = "scan" /\ i < Len(lines) /\ HeaderParses(lines[i + 1])

\* The index of the line that ends the body of the hunk the scan stands on:
\* the next hunk header or file header, or the end of the lines.
BodyEnd ==
  SetMin({k \in (i + 1)..Len(lines) :
            k = Len(lines) \/ isHunkHeader(lines[k + 1]) \/ isFileHeaderStart(lines[k + 1])})

\* C8: a hunk whose body holds no addition and no deletion contributes
\* nothing: the step that processes it leaves the output as it was (neither
\* header nor body line is pushed) and moves the scan to the line after the
\* body, so that the lines and hunks around it are processed as without it.
C8_NoChangeHunkVanishes ==
  [][(AtHunk /\ ChangeAt(Slice(lines, i + 1, BodyEnd)) = {})
       => (out' = out /\ i' = BodyEnd /\ lines' = lines /\ pc' = pc)]_vars

\* A hunk without changes has just been dropped, with output before it and
\* lines after it.
C8_Witness ==
  /\ pc = "scan"
  /\ hunkHeader # NoHeader
  /\ hunkBodyLines # <<>>
  /\ ChangeAt(hunkBodyLines) = {}
  /\ trimmedHunks = <<>>
  /\ out # <<>>
  /\ i < Len(lines)

\* No line terminator in the section.
SingleLine(section) == \A k \in 1..Len(section) : ~IsLineTerminator(section[k])

\* The first position at or after from where s holds c.
FirstAt(s, from, c) == SetMin({k \in from..Len(s) : s[k] = c})

\* The text between "@@ -" and the blank that follows it.
OldPart(h) == SubSeq(h, 5, FirstAt(h, 5, " ") - 1)

\* The text between " +" and the blank that follows it.
NewPart(h) ==
  LET plus == FirstAt(h, 5, " ") + 1
  IN  SubSeq(h, plus + 1, FirstAt(h, plus, " ") - 1)

\* A range is written `start` alone exactly when its length is 1, and
\* `start,0` when its length is 0.
RangeShape(part, start, len) ==
  /\ (part = NumToStr(start)) <=> (len = 1)
  /\ len = 0 => part = NumToStr(start) \o <<",", "0">>
  /\ (\E k \in 1..Len(part) : part[k] = ",") <=> (len # 1)

\* C10: for non-negative integers and a single-line section,
\* parseHunkHeader(formatHunkHeader(...)) returns the five values given;
\* format writes `start` alone exactly when the length is 1 and `start,0`
\* when it is 0, and parse reads the absent length as 1.
C10_CodecRoundTrip ==
  SingleLine(fmtArgs.section) =>
    /\ pc # "threw"
    /\ pc \in {"parse", "parsed"} =>
         /\ RangeShape(OldPart(headerLine), fmtArgs.oldStart, fmtArgs.oldLen)
         /\ RangeShape(NewPart(headerLine), fmtArgs.newStart, fmtArgs.newLen)
    /\ pc = "parsed" =>
         /\ hunkHeader.oldStart = fmtArgs.oldStart
         /\ hunkHeader.oldLen = fmtArgs.oldLen
         /\ hunkHeader.newStart = fmtArgs.newStart
         /\ hunkHeader.newLen = fmtArgs.newLen
         /\ hunkHeader.section = fmtArgs.section

\* A header with a length of 1 on one side and of 0 on the other, a
\* two-digit start and a section, parsed back.
C10_Witness ==
  /\ pc = "parsed"
  /\ fmtArgs.oldLen = 1
  /\ fmtArgs.newLen = 0
  /\ fmtArgs.oldStart = MaxNum
  /\ fmtArgs.section # <<>>
  /\ OldPart(headerLine) = NumToStr(MaxNum)

\* ------------------------------------------------------------------- C11

\* Line k (counted from 0) ends a hunk body that reaches it: it is a hunk
\* header or a `diff --git ` line.
EndsBody(k) == isHunkHeader(lines[k + 1]) \/ isFileHeaderStart(lines[k + 1])

\* Line k lies in a hunk: it is a hunk header, or every line from the one
\* after some hunk header up to k is neither a hunk header nor a file header.
InHunk(k) ==
  \E h \in 0..k :
    /\ isHunkHeader(lines[h + 1])
    /\ \A j \in (h + 1)..k : ~EndsBody(j)

OutsideHunks(k) == ~InHunk(k)

\* The body of the hunk whose header is line h: the lines after h that lie
\* in the same hunk.
HunkBodyAt(h) ==
  SelectSeq([j \in 1..Len(lines) |-> j - 1],
            LAMBDA j : j > h /\ \A m \in (h + 1)..j : ~EndsBody(m))

HunkBodyLinesAt(h) ==
  [n \in 1..Len(HunkBodyAt(h)) |-> lines[HunkBodyAt(h)[n] + 1]]

\* How many lines the hunk whose header is line h puts into the output.
EmittedBy(h) ==
  Len(pushHunks(<<>>, trimOneHunk(parseHunkHeader(lines[h + 1]),
                                  HunkBodyLinesAt(h), contextLines)))

\* The hunk headers among the lines read so far.
HeadersRead == {h \in 0..(i - 1) : isHunkHeader(lines[h + 1])}

\* How many output lines the lines before line k account for: one for each
\* line outside the hunks, and for each hunk header what its hunk emits.
RECURSIVE OutputBefore(_)
OutputBefore(k) ==
  IF k = 0 THEN 0
  ELSE OutputBefore(k - 1)
       + (IF OutsideHunks(k - 1) THEN 1
          ELSE IF isHunkHeader(lines[k]) THEN EmittedBy(k - 1) ELSE 0)

\* C11: of the lines read so far, each one outside the hunks stands in the
\* output as it is, at the place that the lines outside the hunks and the
\* hunks before it give it, so once and in the input's order, and nothing
\* else stands in the output but what the hunks emit; a `diff --git ` line
\* is always one of the lines outside the hunks, and the body collected last
\* is the lines between the last hunk header read and the first hunk header
\* or `diff --git ` line after it, so it holds no `diff --git ` line.
C11_OutsideLinesCopied ==
  pc \in {"scan", "done"} =>
    /\ Len(out) = OutputBefore(i)
    /\ \A k \in 0..(i - 1) :
         OutsideHunks(k) => out[OutputBefore(k) + 1] = lines[k + 1]
    /\ \A k \in 0..(i - 1) : isFileHeaderStart(lines[k + 1]) => OutsideHunks(k)
    /\ \A n \in 1..Len(hunkBodyLines) : ~isFileHeaderStart(hunkBodyLines[n])
    /\ HeadersRead # {} => hunkBodyLines = HunkBodyLinesAt(SetMax(HeadersRead))

\* A call that returned after it copied a line before a hunk, emitted the
\* hunk, and copied the `diff --git ` line that ended the hunk's body.
C11_Witness ==
  /\ pc = "done"
  /\ pass = 1
  /\ Len(lines) = MaxDocLines
  /\ OutsideHunks(0)
  /\ isHunkHeader(lines[2])
  /\ InHunk(2)
  /\ isFileHeaderStart(lines[4])
  /\ trimmedHunks # <<>>
  /\ Len(out) = 4
  /\ out[4] = lines[4]

\* ------------------------------------------------------------------- C12

\* The second argument is a finite number that is not negative.
FiniteNonNegative == contextKind = "finite" /\ contextLines >= 0

\* The call threw before it split the text: the argument check's error.
ArgumentErrorRaised == pc = "threw" /\ lines = <<>>

\* C12: with a second argument that is negative, NaN, infinite or no
\* number, the call can only throw, and it throws with no line read and no
\* output produced; with a finite non-negative one it cannot throw that
\* error.
C12_InvalidContextLinesRejected ==
  /\ ~FiniteNonNegative =>
       /\ pc \in {"start", "threw"}
       /\ pc = "start" => ENABLED RejectContextLines
       /\ lines = <<>> /\ i = 0 /\ out = <<>> /\ result = <<>>
       /\ trimmedHunks = <<>>
  /\ FiniteNonNegative =>
       /\ ~ArgumentErrorRaised
       /\ pc = "start" => ~ENABLED RejectContextLines

\* The call threw on a NaN.
C12_Witness ==
  /\ ArgumentErrorRaised
  /\ contextKind = "NaN"
  /\ patchText # <<>>
  /\ out = <<>>

\* ------------------------------------------------------------------- C13

\* The bodies of the emitted hunks from hunk k on, one after the other.
RECURSIVE EmittedBodiesFrom(_)
EmittedBodiesFrom(k) ==
  IF k > Len(trimmedHunks) THEN <<>>
  ELSE trimmedHunks[k].bodyLines \o EmittedBodiesFrom(k + 1)

\* The addition and deletion lines of ls, in order.
ChangeLines(ls) == SelectSeq(ls, LAMBDA l : KindOf(l) \in {"add", "del"})

\* The body indices that the ranges kr cover.
IndicesIn(kr) ==
  {idx \in 0..(Len(hunkBodyLines) - 1) :
     \E k \in 1..Len(kr) : kr[k][1] <= idx /\ idx <= kr[k][2]}

\* The lines of the body at the indices of S, in the body's order.
LinesAt(S) ==
  LET at == SelectSeq([n \in 1..Len(hunkBodyLines) |-> n - 1],
                      LAMBDA idx : idx \in S)
  IN  [n \in 1..Len(at) |-> hunkBodyLines[at[n] + 1]]

\* C13: the emitted hunks are slices of the body that lie within it, each
\* after the one before with no index in two of them; their bodies, one
\* after the other, are the body's lines at the kept indices in the body's
\* order; every addition and deletion index is kept, so that the emitted
\* addition and deletion lines are those of the body, in order, and every
\* line dropped is a context, marker or other line. A body with no addition
\* or deletion emits nothing.
C13_ChangesPreserved ==
  pc = "trimmed" =>
    IF ChangeAt(hunkBodyLines) = {} THEN trimmedHunks = <<>>
    ELSE
      LET kr == KeptRanges
          kept == IndicesIn(kr)
          emitted == EmittedBodiesFrom(1)
      IN  /\ Len(trimmedHunks) = Len(kr)
          /\ \A k \in 1..Len(kr) :
               /\ trimmedHunks[k].bodyLines
                    = Slice(hunkBodyLines, kr[k][1], kr[k][2] + 1)
               /\ 0 <= kr[k][1]
               /\ kr[k][1] <= kr[k][2]
               /\ kr[k][2] < Len(hunkBodyLines)
               /\ k > 1 => kr[k - 1][2] < kr[k][1]
          /\ emitted = LinesAt(kept)
          /\ ChangeAt(hunkBodyLines) \subseteq kept
          /\ ChangeLines(emitted) = ChangeLines(hunkBodyLines)
          /\ \A idx \in 0..(Len(hunkBodyLines) - 1) :
               idx \notin kept =>
                 KindOf(hunkBodyLines[idx + 1]) \in {"ctx", "meta", "other"}

\* A body of which a context line before the first change and one between
\* two changes are dropped, split into two hunks that keep an addition and a
\* deletion.
C13_Witness ==
  /\ pc = "trimmed"
  /\ contextLines = 1
  /\ Len(trimmedHunks) = 2
  /\ Len(hunkBodyLines) = MaxLong
  /\ KindOf(hunkBodyLines[1]) = "ctx"
  /\ Len(EmittedBodiesFrom(1)) = Len(hunkBodyLines) - 2
  /\ trimmedHunks[1].bodyLines[1] = hunkBodyLines[2]
  /\ \E a, d \in ChangeAt(hunkBodyLines) :
       KindOf(hunkBodyLines[a + 1]) = "add" /\ KindOf(hunkBodyLines[d + 1]) = "del"

\* ------------------------------------------------------------------- C14

\* Value n is an object the search may look at: a plain object or an array.
Traversable(n) == nodeKind[n] \in {"object", "array"}

\* The calls a visit of the object of call c asks for, in order.
CallsOf(c) ==
  [k \in 1..Len(children[c.node]) |->
     [node |-> children[c.node][k],
      path |-> Append(c.path, PathStep(nodeKind[c.node], k - 1))]]

\* The objects in depth-first pre-order, each with the path it is first
\* reached by: todo are the calls still to make and seen the objects met.
RECURSIVE PreOrderFrom(_, _)
PreOrderFrom(todo, seen) ==
  IF todo = <<>> THEN <<>>
  ELSE LET c == Head(todo)
       IN  IF ~Traversable(c.node) \/ c.node \in seen
           THEN PreOrderFrom(Tail(todo), seen)
           ELSE <<c>> \o PreOrderFrom(CallsOf(c) \o Tail(todo),
                                      seen \cup {c.node})

PreOrder == PreOrderFrom(<<[node |-> 1, path |-> <<>>]>>, {})

\* What is left to do, as a number: for each object not seen yet one call
\* of the matcher and two steps for each element or entry, for each call in
\* progress its return and two steps for each turn its loop has left, and
\* the return of findFirstParentWhere.
RECURSIVE UnseenWork(_)
UnseenWork(n) ==
  IF n = 0 THEN 0
  ELSE UnseenWork(n - 1)
       + (IF Traversable(n) /\ n \notin visited
          THEN 2 * Len(children[n]) + 1 ELSE 0)

RECURSIVE StackWork(_)
StackWork(k) ==
  IF k = 0 THEN 0
  ELSE StackWork(k - 1)
       + (IF stack[k].next < 0 THEN 1
          ELSE 1 + 2 * (Len(children[stack[k].node]) - stack[k].next))

Work ==
  UnseenWork(MaxNodes) + StackWork(Len(stack)) + (IF pc = "dfs" THEN 1 ELSE 0)

\* The matcher has been called with the first objects of the pre-order, once
\* each and in that order, with none but the last of them matching; the
\* objects seen are those it was called with; the calls whose loop runs are
\* calls on objects. When the search has returned, it returned the first
\* matching object of the pre-order with its path, or null after the matcher
\* was called with every object of the pre-order and accepted none.
FindCorrect ==
  pc \in {"dfs", "returned"} =>
    LET pre == PreOrder
        hits == {n \in 1..Len(pre) : pre[n].node \in matching}
    IN  /\ Len(matcherCalls) <= Len(pre)
        /\ \A n \in 1..Len(matcherCalls) : matcherCalls[n] = pre[n].node
        /\ \A m, n \in 1..Len(matcherCalls) :
             m # n => matcherCalls[m] # matcherCalls[n]
        /\ \A n \in 1..(Len(matcherCalls) - 1) : matcherCalls[n] \notin matching
        /\ visited = {matcherCalls[n] : n \in 1..Len(matcherCalls)}
        /\ \A n \in visited : Traversable(n)
        /\ \A k \in 1..Len(stack) : stack[k].next >= 0 => Traversable(stack[k].node)
        /\ Work >= 0
        /\ pc = "dfs" => ENABLED NextFind
        /\ pc = "returned" =>
             IF hits = {}
             THEN hit = NoHit /\ Len(matcherCalls) = Len(pre)
             ELSE /\ hit = [found |-> TRUE, parent |-> pre[SetMin(hits)].node,
                            path |-> pre[SetMin(hits)].path]
                  /\ Len(matcherCalls) = SetMin(hits)

\* C14: every step of the search makes the work left smaller, so the search
\* ends on every graph, with or without cycles and values referred to twice;
\* the matcher is called once at most with an object and never with a
\* function or a primitive value, whose properties are never looked at; the
\* search returns the first object of the depth-first pre-order that the
\* matcher accepts, with the keys and indices that lead to it, or null when
\* the matcher accepts no object of the pre-order.
C14_SearchEndsWithFirstMatch == []FindCorrect /\ [][Work' < Work]_vars

\* A search that returned an object two references away from the root, in a
\* graph whose root the returned object refers back to, after the matcher
\* rejected the two objects before it.
C14_Witness ==
  /\ pc = "returned"
  /\ hit.found
  /\ Len(hit.path) = 2
  /\ matcherCalls = <<1, 2, 3>>
  /\ children[hit.parent] = <<1>>

\* ------------------------------------------------------------------- C15

\* The preference that the saved entry stands for: anything but 'light' and
\* 'dark', no entry included, is auto.
Preference ==
  IF storage = <<"light">> THEN "light"
  ELSE IF storage = <<"dark">> THEN "dark"
  ELSE "auto"

\* One step along auto -> light -> dark -> auto.
CycleAfter(p) ==
  IF p = "auto" THEN "light" ELSE IF p = "light" THEN "dark" ELSE "auto"

\* Once the page is initialised, the entry is absent, 'light' or 'dark', and
\* the body's attribute is the entry's value, absent when there is no entry;
\* the button, when there is one, can be clicked and names the preference.
ThemeConsistent ==
  pc = "ready" =>
    /\ storage \in {<<>>, <<"light">>, <<"dark">>}
    /\ bodyTheme = storage
    /\ hasButton => ENABLED Click
    /\ hasButton => buttonLabel = labelOf(Preference)

\* The initialisation keeps the preference, reading an invalid entry as
\* auto, and a click moves it one step along the cycle.
ThemeStep ==
  /\ pc = "load" /\ pc' = "ready" => Preference' = Preference
  /\ pc = "ready" /\ pc' = "ready" => Preference' = CycleAfter(Preference)

\* C15: after the page's initialisation and after every click the saved
\* preference is absent, 'light' or 'dark' and the body's data-theme
\* attribute is the saved value, absent when nothing is saved; each click
\* moves the preference one step along auto -> light -> dark -> auto, and the
\* initialisation reads an invalid saved value as auto.
C15_ThemeConsistent == []ThemeConsistent /\ [][ThemeStep]_vars

\* A page that was loaded with an invalid entry and another theme on its
\* body, and now has the dark theme saved and applied.
C15_Witness ==
  /\ pc = "ready"
  /\ hasButton
  /\ storage = <<"dark">>
  /\ bodyTheme = <<"dark">>
  /\ buttonLabel = "Theme: Dark"

====
